---- MODULE Spec2Model ----
(***************************************************************************)
(* Model of regions/io/ds9_language.py: the ds9 region-file parser.        *)
(*                                                                         *)
(* Text is modelled as a sequence of one-character strings, so that the    *)
(* regular expression search, str.split, str.find, str.strip, slicing and  *)
(* re.sub of the source are computed character by character.               *)
(* A decoded value (astropy Angle, Quantity or SkyCoord, or the exception  *)
(* a decoder raised) is a record [cls, unit, val, pairs, by].              *)
(***************************************************************************)
EXTENDS Integers, Sequences, FiniteSets, TLC

(* ------------------------------ bounds --------------------------------- *)

\* largest number of raw lines of an input file
MaxLines == 3

\* largest number of tokens of a generated field text
MaxTokens == 6

(* ------------------------- Python string primitives -------------------- *)

\* string.digits, in order
Digits == <<"0", "1", "2", "3", "4", "5", "6", "7", "8", "9">>

\* string.ascii_lowercase, in order
ascii_lowercase ==
  <<"a", "b", "c", "d", "e", "f", "g", "h", "i", "j", "k", "l", "m",
    "n", "o", "p", "q", "r", "s", "t", "u", "v", "w", "x", "y", "z">>

ascii_uppercase ==
  <<"A", "B", "C", "D", "E", "F", "G", "H", "I", "J", "K", "L", "M",
    "N", "O", "P", "Q", "R", "S", "T", "U", "V", "W", "X", "Y", "Z">>

Range(s) == {s[i] : i \in 1..Len(s)}

DigitSet == Range(Digits)

\* the character class [a-zA-Z0-9]
Alnum == Range(ascii_lowercase) \cup Range(ascii_uppercase) \cup DigitSet

\* Python's None: neither a coordinate-system name nor an open composite
\* chain is ever the empty sequence, so the empty sequence stands for None
None == <<>>

\* s.find(c) for a one-character c: 0-based index of the first c, or -1
Find(s, c) ==
  IF \E i \in 1..Len(s) : s[i] = c
  THEN (CHOOSE i \in 1..Len(s) : s[i] = c /\ \A j \in 1..(i-1) : s[j] # c) - 1
  ELSE -1

\* (c + c) in s, for a one-character c
HasDouble(s, c) == \E i \in 1..(Len(s)-1) : s[i] = c /\ s[i+1] = c

\* s[start:stop] for start >= 0 and any integer stop
Slice(s, start, stop) ==
  LET n  == Len(s)
      s0 == IF stop < 0 THEN stop + n ELSE stop
      s1 == IF s0 < 0 THEN 0 ELSE IF s0 > n THEN n ELSE s0
  IN  IF start >= s1 THEN <<>> ELSE SubSeq(s, start + 1, s1)

\* s.strip(chars)
Strip(s, chars) ==
  LET keep == {i \in 1..Len(s) : s[i] \notin chars}
  IN  IF keep = {} THEN <<>>
      ELSE SubSeq(s, CHOOSE i \in keep : \A j \in keep : i <= j,
                     CHOOSE i \in keep : \A j \in keep : i >= j)

RECURSIVE Remove(_, _)
\* re.sub of a character class by ""
Remove(s, chars) ==
  IF s = <<>> THEN <<>>
  ELSE IF s[1] \in chars THEN Remove(Tail(s), chars)
  ELSE <<s[1]>> \o Remove(Tail(s), chars)

RECURSIVE SplitFrom(_, _, _, _)
SplitFrom(s, seps, i, cur) ==
  IF i > Len(s) THEN <<cur>>
  ELSE IF s[i] \in seps THEN <<cur>> \o SplitFrom(s, seps, i + 1, <<>>)
  ELSE SplitFrom(s, seps, i + 1, Append(cur, s[i]))

\* str.split(sep) / re.split of a one-character class: every separator
\* character ends a piece, so adjacent separators give empty pieces
Split(s, seps) == SplitFrom(s, seps, 1, <<>>)

(* ------------------------------ numbers -------------------------------- *)

DigitVal(c) == (CHOOSE i \in 1..10 : Digits[i] = c) - 1

RECURSIVE DigitsToInt(_)
DigitsToInt(s) ==
  IF s = <<>> THEN 0
  ELSE 10 * DigitsToInt(SubSeq(s, 1, Len(s) - 1)) + DigitVal(s[Len(s)])

RECURSIVE Normalise(_, _)
\* the decimal m * 10^-e without trailing zero decimals
Normalise(m, e) ==
  IF e > 0 /\ m % 10 = 0 THEN Normalise(m \div 10, e - 1) ELSE [m |-> m, e |-> e]

\* float(s) for decimal literals: an optional sign, digits with at most one
\* point and at least one digit.  ok = FALSE is the ValueError of float().
\* (Exponents, inf, nan and underscores are outside the modelled inputs.)
float(s) ==
  LET signed == s # <<>> /\ s[1] \in {"+", "-"}
      body   == IF signed THEN Tail(s) ELSE s
      dot    == Find(body, ".")
      ip     == IF dot = -1 THEN body ELSE SubSeq(body, 1, dot)
      fp     == IF dot = -1 THEN <<>> ELSE SubSeq(body, dot + 2, Len(body))
      valid  == /\ Range(ip) \subseteq DigitSet
                /\ Range(fp) \subseteq DigitSet
                /\ Len(ip) + Len(fp) >= 1
      mag    == Normalise(DigitsToInt(ip \o fp), Len(fp))
  IN  IF ~valid THEN [ok |-> FALSE, num |-> [m |-> 0, e |-> 0]]
      ELSE [ok |-> TRUE,
            num |-> IF signed /\ s[1] = "-"
                    THEN [m |-> 0 - mag.m, e |-> mag.e] ELSE mag]

\* a sexagesimal literal a:b or a:b:c
Sexagesimal(s) ==
  LET fs == [i \in 1..Len(Split(s, {":"})) |-> float(Split(s, {":"})[i])]
  IN  [ok  |-> /\ Len(fs) \in {2, 3}
               /\ \A i \in 1..Len(fs) : fs[i].ok
               /\ \A i \in 2..Len(fs) : Split(s, {":"})[i][1] \notin {"+", "-"},
       val |-> [i \in 1..Len(fs) |-> fs[i].num]]

(* --------------------------- decoded values ---------------------------- *)

\* cls: the class of the value; unit: its unit (for an Error, the exception);
\* val: its number(s); pairs, frame: the positions of a SkyCoord and their
\* frame; by: the entry of language_spec that decoded it
Value(cls, unit, val, by) ==
  [cls |-> cls, unit |-> unit, val |-> val, pairs |-> <<>>, frame |-> <<>>,
   by |-> by]

\* an exception raised while decoding
Raised(name, by) == Value("Error", name, <<>>, by)

IsError(v) == v.cls = "Error"

\* a literal such as 5" or 5' that carries its unit: the number and a
\* valid mark
OwnUnit(string_rep) ==
  LET n == Len(string_rep)
      f == float(IF n = 0 THEN <<>> ELSE SubSeq(string_rep, 1, n - 1))
  IN  [ok  |-> /\ n > 1
               /\ string_rep[n] \in {"\"", "'"}
               /\ string_rep[1] \notin {"+", "-"}
               /\ f.ok,
       unit |-> IF n > 0 /\ string_rep[n] = "\"" THEN "arcsec" ELSE "arcmin",
       num |-> f.num]

\* Angle, given the literal read as a number (f), as a sexagesimal (sx) and
\* as a number with a unit mark (own)
AngleOf(f, sx, own, unit) ==
  IF f.ok
  THEN IF unit = "" THEN Raised("UnitsError", "coordinate")
       ELSE Value("Angle", unit, <<f.num>>, "coordinate")
  ELSE IF sx.ok
  THEN IF unit = "" THEN Raised("UnitsError", "coordinate")
       ELSE Value("Angle", unit, sx.val, "coordinate")
  ELSE IF own.ok THEN Value("Angle", own.unit, <<own.num>>, "coordinate")
  ELSE Raised("ValueError", "coordinate")

\* coordinates.Angle(string_rep, unit): a number or a sexagesimal literal in
\* the given unit; with unit "" (no unit given) a literal that carries no
\* unit of its own raises UnitsError and an unparsable one ValueError
Angle(string_rep, unit) ==
  AngleOf(float(string_rep), Sexagesimal(string_rep), OwnUnit(string_rep), unit)

hour_or_deg == "hour_or_deg"

\* unit.is_equivalent(u.deg)
is_equivalent_deg(unit) == unit \in {"deg", "arcsec", "arcmin", "rad", "hourangle"}

\* u.Quantity(float(string_rep), unit), given f = float(string_rep)
Quantity(f, unit, by) ==
  IF f.ok THEN Value("Quantity", unit, <<f.num>>, by) ELSE Raised("ValueError", by)

\* the except branch of coordinate
coordinate_except(string_rep, unit) ==
  IF unit = hour_or_deg \/ is_equivalent_deg(unit)
  THEN Angle(string_rep,
             IF unit # hour_or_deg THEN unit
             ELSE IF Find(string_rep, ":") # -1 THEN "hourangle" ELSE "deg")
  ELSE Quantity(float(string_rep), unit, "coordinate")

\* coordinate, given first, the outcome of coordinates.Angle(string_rep)
coordinate_try(first, string_rep, unit) ==
  IF ~(IsError(first) /\ first.unit = "UnitsError") THEN first
  ELSE coordinate_except(string_rep, unit)

coordinate(string_rep, unit) ==
  coordinate_try(Angle(string_rep, ""), string_rep, unit)

unit_mapping ==
  [c \in {"\"", "'", "r", "i"} |->
     CASE c = "\"" -> "arcsec"
       [] c = "'"  -> "arcmin"
       [] c = "r"  -> "rad"
       [] c = "i"  -> "dimensionless"]

angular_length_quantity(string_rep, by) ==
  LET n == Len(string_rep)
  IN  IF n = 0 THEN Raised("IndexError", by)
      ELSE IF string_rep[n] \in DigitSet
      THEN Quantity(float(string_rep), "deg", by)
      ELSE IF string_rep[n] \notin DOMAIN unit_mapping THEN Raised("KeyError", by)
      ELSE Quantity(float(SubSeq(string_rep, 1, n - 1)),
                    unit_mapping[string_rep[n]], by)

(* -------------------------------- names ------------------------------- *)

fk5 == <<"f", "k", "5">>

fk4 == <<"f", "k", "4">>

icrs == <<"i", "c", "r", "s">>

galactic == <<"g", "a", "l", "a", "c", "t", "i", "c">>

wcs == <<"w", "c", "s">>

physical == <<"p", "h", "y", "s", "i", "c", "a", "l">>

image == <<"i", "m", "a", "g", "e">>

ecliptic == <<"e", "c", "l", "i", "p", "t", "i", "c">>

geocentrictrueecliptic ==
  <<"g", "e", "o", "c", "e", "n", "t", "r", "i", "c", "t", "r", "u", "e",
    "e", "c", "l", "i", "p", "t", "i", "c">>

point == <<"p", "o", "i", "n", "t">>

circle == <<"c", "i", "r", "c", "l", "e">>

box == <<"b", "o", "x">>

polygon == <<"p", "o", "l", "y", "g", "o", "n">>

\* 'wcs{0}'.format(letter)
wcs_letter(letter) == wcs \o <<letter>>

(* -------------------------------- tables ------------------------------- *)

\* mutant: the polygon cycle alternates between two parsers
language_spec_two_cycle ==
  [t \in {point, circle, box, polygon} |->
     CASE t = point   -> [cyclic |-> FALSE, kinds |-> <<"coordinate", "coordinate">>]
       [] t = circle  -> [cyclic |-> FALSE,
                          kinds |-> <<"coordinate", "coordinate", "radius">>]
       [] t = box     -> [cyclic |-> FALSE,
                          kinds |-> <<"coordinate", "coordinate", "width",
                                      "height", "angle">>]
       [] t = polygon -> [cyclic |-> TRUE, kinds |-> <<"coordinate", "radius">>]]

\* mutant: the radius of a circle is its second field
language_spec_radius_second ==
  [t \in {point, circle, box, polygon} |->
     CASE t = point   -> [cyclic |-> FALSE, kinds |-> <<"coordinate", "coordinate">>]
       [] t = circle  -> [cyclic |-> FALSE,
                          kinds |-> <<"coordinate", "radius", "coordinate">>]
       [] t = box     -> [cyclic |-> FALSE,
                          kinds |-> <<"coordinate", "coordinate", "width",
                                      "height", "angle">>]
       [] t = polygon -> [cyclic |-> TRUE, kinds |-> <<"coordinate">>]]

\* the parsers of a region type's fields, by the names the table gives them;
\* cyclic marks itertools.cycle(kinds)
language_spec ==
  [t \in {point, circle, box, polygon} |->
     CASE t = point   -> [cyclic |-> FALSE, kinds |-> <<"coordinate", "coordinate">>]
       [] t = circle  -> [cyclic |-> FALSE,
                          kinds |-> <<"coordinate", "coordinate", "radius">>]
       [] t = box     -> [cyclic |-> FALSE,
                          kinds |-> <<"coordinate", "coordinate", "width",
                                      "height", "angle">>]
       [] t = polygon -> [cyclic |-> TRUE, kinds |-> <<"coordinate">>]]

coordinate_systems ==
  <<fk5, fk4, icrs, galactic, wcs, physical, image, ecliptic>>
  \o [i \in 1..Len(ascii_lowercase) |-> wcs_letter(ascii_lowercase[i])]

\* coordinates.frame_transform_graph.get_names(): the frames of astropy
\* (those whose name can meet a name of this module)
frame_names == {icrs, fk5, fk4, galactic, geocentrictrueecliptic}

coordsys_name_mapping ==
  [n \in frame_names \cup {ecliptic} |->
     IF n = ecliptic THEN geocentrictrueecliptic ELSE n]

\* mutant: the ecliptic units are filed under the ds9 name of the system
coordinate_units_ds9_names ==
  [n \in {fk5, fk4, icrs, ecliptic, galactic, physical, image, wcs}
         \cup {wcs_letter(ascii_lowercase[i]) : i \in 1..Len(ascii_lowercase)} |->
     IF n \in {fk5, fk4, icrs} THEN <<hour_or_deg, "deg">>
     ELSE IF n \in {ecliptic, galactic} THEN <<"deg", "deg">>
     ELSE <<"dimensionless", "dimensionless">>]

coordinate_units ==
  [n \in {fk5, fk4, icrs, geocentrictrueecliptic, galactic, physical, image, wcs}
         \cup {wcs_letter(ascii_lowercase[i]) : i \in 1..Len(ascii_lowercase)} |->
     IF n \in {fk5, fk4, icrs} THEN <<hour_or_deg, "deg">>
     ELSE IF n \in {geocentrictrueecliptic, galactic} THEN <<"deg", "deg">>
     ELSE <<"dimensionless", "dimensionless">>]

(* ------------------------------- parsers ------------------------------- *)

\* region_type_or_coordsys_re.search(line), for "#? *([a-zA-Z0-9]+)": the
\* leftmost match always captures the first maximal alphanumeric run.
\* found: a match exists; group: groups()[0]; stop: span()[1]
region_type_or_coordsys_re(line) ==
  LET idx == {i \in 1..Len(line) : line[i] \in Alnum}
  IN  IF idx = {} THEN [found |-> FALSE, group |-> <<>>, stop |-> 0]
      ELSE LET a == CHOOSE i \in idx : \A j \in idx : i <= j
               b == CHOOSE i \in a..Len(line) :
                      /\ \A j \in a..i : line[j] \in Alnum
                      /\ (i = Len(line) \/ line[i + 1] \notin Alnum)
           IN  [found |-> TRUE, group |-> SubSeq(line, a, b), stop |-> b]

strip_paren(string_rep) == Remove(string_rep, {"(", ")"})

\* mutant: a tuple specification is read from its end
NextParser_reversed(specification, ii, pos) ==
  IF specification.cyclic THEN specification.kinds[pos + 1]
  ELSE specification.kinds[Len(specification.kinds) - ii]

\* the next element of a field specification: position ii (0-based) of a
\* tuple, or the element the shared cycle iterator yields at position pos
NextParser(specification, ii, pos) ==
  IF specification.cyclic THEN specification.kinds[pos + 1]
  ELSE specification.kinds[ii + 1]

\* mutant: every coordinate is given the first unit of the pair
Decode_first_hint(element, element_parser, csys, ii) ==
  IF element_parser # "coordinate"
  THEN angular_length_quantity(element, element_parser)
  ELSE IF csys \notin DOMAIN coordinate_units THEN Raised("KeyError", "coordinate")
  ELSE coordinate(element, coordinate_units[csys][1])

\* the element decoded by its parser; a coordinate under a system without
\* units is the KeyError of coordinate_units[coordsys]
Decode(element, element_parser, csys, ii) ==
  IF element_parser # "coordinate"
  THEN angular_length_quantity(element, element_parser)
  ELSE IF csys \notin DOMAIN coordinate_units THEN Raised("KeyError", "coordinate")
  ELSE coordinate(element, coordinate_units[csys][(ii % 2) + 1])

\* the unit pair looked up so far, after element_parser has run
UnitsSeen(units, element_parser, csys) ==
  IF element_parser = "coordinate" /\ csys \in DOMAIN coordinate_units
  THEN coordinate_units[csys] ELSE units

RECURSIVE type_parser_loop(_, _, _, _, _, _)

\* one turn of the loop of type_parser: v is the decoded element, pos1 the
\* position of the cycle iterator after the turn
type_parser_turn(elements, specification, csys, ii, pos1, acc, v, units) ==
  IF IsError(v)
  THEN [coord_list |-> acc.coord_list, err |-> v.unit, pos |-> pos1,
        units |-> units]
  ELSE type_parser_loop(elements, specification, csys, ii + 1, pos1,
                        [coord_list |-> Append(acc.coord_list, v), units |-> units])

\* the loop of type_parser from element ii on: coord_list so far, pos the
\* position of the cycle iterator, units the last unit pair looked up
type_parser_loop(elements, specification, csys, ii, pos, acc) ==
  IF \/ ii >= Len(elements)
     \/ (~specification.cyclic /\ ii >= Len(specification.kinds))
  THEN [coord_list |-> acc.coord_list, err |-> "", pos |-> pos, units |-> acc.units]
  ELSE type_parser_turn(elements, specification, csys, ii,
         IF specification.cyclic THEN (pos + 1) % Len(specification.kinds) ELSE pos,
         acc,
         Decode(elements[ii + 1], NextParser(specification, ii, pos), csys, ii),
         UnitsSeen(acc.units, NextParser(specification, ii, pos), csys))

\* splitter: the character class [, ]
splitter == {",", " "}

\* mutant: a tuple specification must be met by as many tokens
type_parser_strict(string_rep, specification, csys, pos) ==
  IF ~specification.cyclic
       /\ Len(Split(string_rep, splitter)) # Len(specification.kinds)
  THEN [coord_list |-> <<>>, err |-> "ValueError", pos |-> pos,
        units |-> UnitsSeen(<<>>, "coordinate", csys)]
  ELSE type_parser_loop(Split(string_rep, splitter), specification, csys, 0, pos,
                        [coord_list |-> <<>>, units |-> <<>>])

\* csys: the coordsys argument; pos: the position of the module-level cycle
\* iterator before the call
type_parser(string_rep, specification, csys, pos) ==
  type_parser_loop(Split(string_rep, splitter), specification, csys, 0, pos,
                   [coord_list |-> <<>>, units |-> <<>>])

\* mutant: only the first pair is looked at
AnglePairs_first_only(elements) ==
  IF Len(elements) >= 2 /\ elements[1].cls = "Angle"
  THEN << <<elements[1], elements[2]>> >> ELSE <<>>

\* zip(parsed[:-1:2], parsed[1::2]) filtered by isinstance(x, Angle)
AnglePairs(elements) ==
  LET all == [j \in 1..(Len(elements) \div 2) |-> <<elements[2 * j - 1], elements[2 * j]>>]
  IN  SelectSeq(all, LAMBDA p : p[1].cls = "Angle")

\* coordinates.SkyCoord(pairs, frame=frame)
SkyCoord(pairs, frame) ==
  [cls |-> "SkyCoord", unit |-> "", val |-> <<>>, pairs |-> pairs,
   frame |-> frame, by |-> "SkyCoord"]

LineResult(tag, region_type, coordlist, composite, elements, units, pos, err) ==
  [tag |-> tag, region_type |-> region_type, coordlist |-> coordlist,
   composite |-> composite, parsed |-> elements, units |-> units, pos |-> pos,
   err |-> err]

\* mutant: the check for a missing coordinate system is dropped
no_coordsys_never(csys) == FALSE

\* coordsys is None
no_coordsys(csys) == csys = None

\* coords_etc: the text between the end of the region's name and the first
\* "#" (the last character when there is none), stripped
coords_etc(line) ==
  LET end_of_region_name == region_type_or_coordsys_re(line).stop
      hash_or_end == Find(line, "#")
  IN  strip_paren(Strip(Slice(line, end_of_region_name, hash_or_end), {" ", "|"}))

\* mutant: the marker is looked for in the stripped field text
is_composite_stripped(line) == HasDouble(coords_etc(line), "|")

\* "||" in line
is_composite(line) == HasDouble(line, "|")

\* tag "None": returns None; "coordsys": returns the name (region_type);
\* "region": returns (region_type, coordlist, composite); "raise": raises
\* err.  parsed and units are the list type_parser returned and the unit
\* pair it looked up; pos is the cycle iterator's position afterwards.
\* The return of line_parser for a region line, given tp, what type_parser
\* returned, and coords, the pairs the SkyCoord is made of
region_line(region_type, composite, csys, tp, coords) ==
  IF tp.err # ""
  THEN LineResult("raise", region_type, <<>>, composite, tp.coord_list,
                  tp.units, tp.pos, tp.err)
  ELSE IF csys \notin DOMAIN coordsys_name_mapping
  THEN LineResult("region", region_type, tp.coord_list, composite,
                  tp.coord_list, tp.units, tp.pos, "")
  \* SkyCoord of an empty list of positions raises
  ELSE IF coords = <<>>
  THEN LineResult("raise", region_type, <<>>, composite, tp.coord_list,
                  tp.units, tp.pos, "IndexError")
  ELSE LineResult("region", region_type,
                  <<SkyCoord(coords, coordsys_name_mapping[csys])>>
                    \o SubSeq(tp.coord_list, 2 * Len(coords) + 1, Len(tp.coord_list)),
                  composite, tp.coord_list, tp.units, tp.pos, "")

\* type_parser(coords_etc, language_spec[region_type], ...) as line_parser
\* calls it: with the frame's name under a frame-bound system
call_type_parser_on(string_rep, region_type, csys, pos) ==
  type_parser(string_rep, language_spec[region_type],
              IF csys \in DOMAIN coordsys_name_mapping
              THEN coordsys_name_mapping[csys] ELSE csys,
              pos)

call_type_parser(line, region_type, csys, pos) ==
  call_type_parser_on(coords_etc(line), region_type, csys, pos)

\* line_parser from its first test on, given the match of the search
line_parser_body(line, csys, pos, region_type_search, region_type) ==
  IF ~region_type_search.found
  THEN LineResult("None", <<>>, <<>>, FALSE, <<>>, <<>>, pos, "")
  ELSE IF region_type \in Range(coordinate_systems)
  THEN LineResult("coordsys", region_type, <<>>, FALSE, <<>>, <<>>, pos, "")
  ELSE IF region_type \notin DOMAIN language_spec
  THEN LineResult("None", <<>>, <<>>, FALSE, <<>>, <<>>, pos, "")
  ELSE IF no_coordsys(csys)
  THEN LineResult("raise", region_type, <<>>, is_composite(line), <<>>, <<>>,
                  pos, "ValueError")
  ELSE LET tp == call_type_parser(line, region_type, csys, pos)
       IN  region_line(region_type, is_composite(line), csys, tp,
                       AnglePairs(tp.coord_list))

line_parser(line, csys, pos) ==
  LET region_type_search == region_type_or_coordsys_re(line)
  IN  line_parser_body(line, csys, pos, region_type_search,
                       region_type_search.group)

(* ------------------------------- inputs -------------------------------- *)

\* fk5\n
line_fk5 ==
  <<"f", "k", "5", "\n">>

\* galactic\n
line_galactic ==
  <<"g", "a", "l", "a", "c", "t", "i", "c", "\n">>

\* image\n
line_image ==
  <<"i", "m", "a", "g", "e", "\n">>

\* circle(1,2,3) || box(4,5,6,7,8)\n
line_inline ==
  <<"c", "i", "r", "c", "l", "e", "(", "1", ",", "2", ",", "3", ")", " ",
    "|", "|", " ", "b", "o", "x", "(", "4", ",", "5", ",", "6", ",", "7",
    ",", "8", ")", "\n">>

\* circle(10.0, 20.0, 5")\n
line_example ==
  <<"c", "i", "r", "c", "l", "e", "(", "1", "0", ".", "0", ",", " ", "2",
    "0", ".", "0", ",", " ", "5", "\"", ")", "\n">>

\* circle(1,2,3) ||\n
line_circle_cont ==
  <<"c", "i", "r", "c", "l", "e", "(", "1", ",", "2", ",", "3", ")", " ",
    "|", "|", "\n">>

\* box(4,5,6,7,8)\n
line_box ==
  <<"b", "o", "x", "(", "4", ",", "5", ",", "6", ",", "7", ",", "8", ")",
    "\n">>

\* point(1:30:00,2)\n
line_point ==
  <<"p", "o", "i", "n", "t", "(", "1", ":", "3", "0", ":", "0", "0", ",",
    "2", ")", "\n">>

\* polygon(1,2,3)\n
line_polygon ==
  <<"p", "o", "l", "y", "g", "o", "n", "(", "1", ",", "2", ",", "3", ")",
    "\n">>

\* galactic;point(1:30:00,2)\n
line_switch ==
  <<"g", "a", "l", "a", "c", "t", "i", "c", ";", "p", "o", "i", "n", "t",
    "(", "1", ":", "3", "0", ":", "0", "0", ",", "2", ")", "\n">>

\* # comment\n
line_comment ==
  <<"#", " ", "c", "o", "m", "m", "e", "n", "t", "\n">>

\* circle 1 2 30\n
line_bare ==
  <<"c", "i", "r", "c", "l", "e", " ", "1", " ", "2", " ", "3", "0", "\n">>

\* circle 1 2 30;circle 1 2\n
line_bare_semi ==
  <<"c", "i", "r", "c", "l", "e", " ", "1", " ", "2", " ", "3", "0", ";",
    "c", "i", "r", "c", "l", "e", " ", "1", " ", "2", "\n">>

\* circle 1 2 30
line_bare_eof ==
  <<"c", "i", "r", "c", "l", "e", " ", "1", " ", "2", " ", "3", "0">>

\* circle(1,2,3);box(4,5,6,7,8)\n
line_paren_semi ==
  <<"c", "i", "r", "c", "l", "e", "(", "1", ",", "2", ",", "3", ")", ";",
    "b", "o", "x", "(", "4", ",", "5", ",", "6", ",", "7", ",", "8", ")",
    "\n">>

\* circle(1,2,3) # red\n
line_hash ==
  <<"c", "i", "r", "c", "l", "e", "(", "1", ",", "2", ",", "3", ")", " ",
    "#", " ", "r", "e", "d", "\n">>

\* box(1,2,3",4',5r,6)\n
line_suffixes ==
  <<"b", "o", "x", "(", "1", ",", "2", ",", "3", "\"", ",", "4", "'", ",",
    "5", "r", ",", "6", ")", "\n">>

\* circle(1,2,3i)\n
line_dimensionless ==
  <<"c", "i", "r", "c", "l", "e", "(", "1", ",", "2", ",", "3", "i", ")",
    "\n">>

\* circle(1,2,5.)\n
line_trailing_point ==
  <<"c", "i", "r", "c", "l", "e", "(", "1", ",", "2", ",", "5", ".", ")",
    "\n">>

\* point(1,2,3)\n
line_surplus ==
  <<"p", "o", "i", "n", "t", "(", "1", ",", "2", ",", "3", ")", "\n">>

\* box(1,2,3)\n
line_truncated ==
  <<"b", "o", "x", "(", "1", ",", "2", ",", "3", ")", "\n">>

\* point(1)\n
line_one ==
  <<"p", "o", "i", "n", "t", "(", "1", ")", "\n">>

\* polygon(1:30:00,2:30:00,3,4,5)\n
line_vertices ==
  <<"p", "o", "l", "y", "g", "o", "n", "(", "1", ":", "3", "0", ":", "0",
    "0", ",", "2", ":", "3", "0", ":", "0", "0", ",", "3", ",", "4", ",",
    "5", ")", "\n">>

\* point(5",2)\n
line_own_unit ==
  <<"p", "o", "i", "n", "t", "(", "5", "\"", ",", "2", ")", "\n">>

\* \n
line_blank ==
  <<"\n">>

\* text(1,2)\n
line_unknown ==
  <<"t", "e", "x", "t", "(", "1", ",", "2", ")", "\n">>

\* the raw lines input files are made of
Catalogue ==
  {line_fk5, line_galactic, line_image, line_inline, line_example,
   line_circle_cont, line_box, line_point, line_polygon, line_switch,
   line_comment}

\* the input files: at most MaxLines raw lines of the catalogue
Files == UNION {[1..n -> Catalogue] : n \in 0..MaxLines}

\* the line declaring a coordinate system
DeclLine(name) == name \o <<"\n">>

\* the input files that declare one recognized coordinate system and then
\* define regions under it
UnitBodies ==
  {<<line_point>>, <<line_polygon>>, <<line_example>>,
   <<line_comment, line_box>>,
   <<line_circle_cont, line_circle_cont, line_box>>}

UnitFiles ==
  {<<DeclLine(coordinate_systems[i])>> \o b :
     i \in 1..Len(coordinate_systems), b \in UnitBodies}

\* the raw lines, each ending in a newline, that exercise the field text
FieldLines ==
  {line_bare, line_bare_semi, line_paren_semi, line_hash, line_suffixes,
   line_dimensionless, line_trailing_point, line_surplus, line_truncated,
   line_one, line_vertices, line_own_unit, line_blank, line_unknown,
   line_circle_cont, line_switch, line_comment}

\* the last raw line of a file that does not end in a newline
LastLines == {line_bare_eof}

\* at most MaxLines - 1 raw lines, of which only the last may lack its newline
FieldBodies ==
  UNION {[1..n -> FieldLines] : n \in 1..(MaxLines - 1)}
    \cup {b \o <<e>> : b \in UNION {[1..n -> FieldLines] : n \in 0..(MaxLines - 2)},
                        e \in LastLines}

\* the systems the field files are declared under: two frame-bound systems
\* with different unit pairs, the aliased one and one without a frame
FieldSystems == {fk5, galactic, ecliptic, image}

\* the other systems of the hour-or-degree unit pair
HourSystems == {fk4, icrs}

\* the raw line of a region of type t with the n tokens 1, 2, ... between
\* parentheses
CountLine(t, n) ==
  t \o <<"(">>
    \o [k \in 1..(2 * n - 1) |->
          IF k % 2 = 1 THEN Digits[(((k + 1) \div 2) % 10) + 1] ELSE ","]
    \o <<")", "\n">>

\* every region type with every number of tokens from 1 to MaxTokens
CountLines == {CountLine(t, n) : t \in DOMAIN language_spec, n \in 1..MaxTokens}

\* the input files that declare a system and then define regions under it:
\* every body under the field systems, every field line under the hour
\* systems, and every count line under both
FieldFiles ==
  {<<DeclLine(cs)>> \o b : cs \in FieldSystems, b \in FieldBodies}
    \cup {<<DeclLine(cs), l>> : cs \in HourSystems, l \in FieldLines}
    \cup {<<DeclLine(cs), l>> : cs \in FieldSystems \cup HourSystems, l \in CountLines}

AllLines ==
  Catalogue \cup FieldLines \cup LastLines \cup CountLines
    \cup {DeclLine(coordinate_systems[i]) : i \in 1..Len(coordinate_systems)}

\* line_.split(";") of every raw line
split_table == [l \in AllLines |-> Split(l, {";"})]

\* the sub-lines the input files contain
SubLineSet == UNION {Range(split_table[l]) : l \in AllLines}

\* line_parser, evaluated once for every sub-line, coordinate system and
\* position of the cycle iterator
line_parser_table ==
  [l \in SubLineSet, cs \in {None} \cup Range(coordinate_systems),
   pos \in 0..(Len(language_spec[polygon].kinds) - 1) |-> line_parser(l, cs, pos)]

(* ------------------------------- ds9_parser ---------------------------- *)

VARIABLES
  file,              \* the lines of the file being parsed
  call,              \* "first" or "second" call of ds9_parser in the process
  first_result,      \* how the first call ended
  pc,                \* "loop", "parsed" (line_parser was called), "done" or "raised"
  lineno,            \* number of raw lines read from fh
  pending,           \* sub-lines of the current raw line still to process
  coordsys,
  regions,
  composite_region,
  cycle_pos,         \* position of the module-level itertools.cycle iterator
  returned,          \* the value ds9_parser returned
  error,             \* the exception ds9_parser raised
  parsed,            \* the result of the latest line_parser call
  nsub,              \* number of sub-lines processed to completion
  regions_at,        \* for each entry of regions, the ordinals of its sub-lines
  composite_at,      \* the ordinals of the sub-lines of the open chain
  regions_when_opened \* regions as it was when the open chain was opened

vars ==
  <<file, call, first_result, pc, lineno, pending, coordsys, regions,
    composite_region, cycle_pos, returned, error, parsed, nsub, regions_at,
    composite_at, regions_when_opened>>

NoResult == [ok |-> FALSE, list |-> <<>>]

NoCall == LineResult("", <<>>, <<>>, FALSE, <<>>, <<>>, 0, "")

Outcome == [pc |-> pc, returned |-> returned, error |-> error]

\* the state of ds9_parser when it is entered
Enter ==
  /\ pc = "loop"
  /\ lineno = 0
  /\ pending = <<>>
  /\ coordsys = None
  /\ regions = <<>>
  /\ composite_region = None
  /\ returned = NoResult
  /\ error = ""
  /\ parsed = NoCall
  /\ nsub = 0
  /\ regions_at = <<>>
  /\ composite_at = <<>>
  /\ regions_when_opened = <<>>

\* the process before the first call, given the file to parse
Start ==
  /\ call = "first"
  /\ first_result = [pc |-> "", returned |-> NoResult, error |-> ""]
  /\ cycle_pos = 0
  /\ Enter

Init == file \in Files /\ Start

InitUnits == file \in UnitFiles /\ Start

InitFields == file \in FieldFiles /\ Start

\* (region_type, coordlist)
Member(region_type, coordlist) ==
  [region_type |-> region_type, coordlist |-> coordlist]

\* an entry of regions: a tuple (one member) or a composite list
Single(member) == [composite |-> FALSE, members |-> <<member>>]

Composite(members) == [composite |-> TRUE, members |-> members]

\* mutant: a declaration also closes the open chain
ChainAfterDeclaration_closed(chain) == None

\* the open chain after a declaration: the branch does not touch it
ChainAfterDeclaration(chain) == chain

\* mutant: only the first declaration is taken
CoordsysAfter_first(result, cs) ==
  IF result.tag = "coordsys" /\ cs = None THEN result.region_type ELSE cs

\* the value of coordsys after a sub-line
CoordsysAfter(result, cs) == IF result.tag = "coordsys" THEN result.region_type ELSE cs

\* mutant: the member replaces the open chain
ChainAppend_restart(chain, member) == <<member>>

\* mutant: the member is not appended
ChainAppend_dropped(chain, member) == chain

\* composite_region.append((region_type, coordlist))
ChainAppend(chain, member) == Append(chain, member)

\* mutant: the entry is inserted at the front
RegionsAppend_front(list, entry) == <<entry>> \o list

\* regions.append(entry)
RegionsAppend(list, entry) == Append(list, entry)

\* mutant: the open chain is flushed into the returned list
ReturnValue_flush(list, chain) ==
  [ok |-> TRUE,
   list |-> IF chain = None THEN list
            ELSE list \o <<[composite |-> TRUE, members |-> chain]>>]

\* return regions
ReturnValue(list, chain) == [ok |-> TRUE, list |-> list]

\* for line_ in fh: ... line_.split(";")
ReadLine ==
  /\ pc = "loop"
  /\ pending = <<>>
  /\ lineno < Len(file)
  /\ lineno' = lineno + 1
  /\ pending' = split_table[file[lineno + 1]]
  /\ UNCHANGED <<file, call, first_result, pc, coordsys, regions, composite_region,
                 cycle_pos, returned, error, parsed, nsub, regions_at,
                 composite_at, regions_when_opened>>

\* parsed = line_parser(line, coordsys): the call returns or raises, and
\* leaves the cycle iterator where type_parser advanced it
CallLineParser ==
  /\ pc = "loop"
  /\ pending # <<>>
  /\ parsed' = line_parser_table[Head(pending), coordsys, cycle_pos]
  /\ pending' = Tail(pending)
  /\ cycle_pos' = parsed'.pos
  /\ pc' = "parsed"
  /\ UNCHANGED <<file, call, first_result, lineno, coordsys, regions,
                 composite_region, returned, error, nsub, regions_at,
                 composite_at, regions_when_opened>>

\* the branch of the loop body taken on what line_parser gave
SubLine(tag) ==
  /\ pc = "parsed"
  /\ parsed.tag = tag
  /\ UNCHANGED <<file, call, first_result, lineno, pending, cycle_pos,
                 returned, parsed>>

\* parsed in coordinate_systems: coordsys = parsed
Declare ==
  /\ SubLine("coordsys")
  /\ coordsys' = CoordsysAfter(parsed, coordsys)
  /\ composite_region' = ChainAfterDeclaration(composite_region)
  /\ pc' = "loop"
  /\ nsub' = nsub + 1
  /\ UNCHANGED <<error, regions, regions_at, composite_at, regions_when_opened>>

\* parsed is None
Ignore ==
  /\ SubLine("None")
  /\ pc' = "loop"
  /\ nsub' = nsub + 1
  /\ UNCHANGED <<coordsys, error, regions, composite_region, regions_at,
                 composite_at, regions_when_opened>>

\* line_parser raised: the exception leaves ds9_parser
Raise ==
  /\ SubLine("raise")
  /\ pc' = "raised"
  /\ error' = parsed.err
  /\ UNCHANGED <<coordsys, nsub, regions, composite_region, regions_at,
                 composite_at, regions_when_opened>>

\* composite and composite_region is None
OpenChain ==
  /\ SubLine("region")
  /\ parsed.composite /\ composite_region = None
  /\ composite_region' = <<Member(parsed.region_type, parsed.coordlist)>>
  /\ pc' = "loop"
  /\ nsub' = nsub + 1
  /\ composite_at' = <<nsub + 1>>
  /\ regions_when_opened' = regions
  /\ UNCHANGED <<coordsys, error, regions, regions_at>>

\* composite, with a chain open
ExtendChain ==
  /\ SubLine("region")
  /\ parsed.composite /\ composite_region # None
  /\ composite_region' =
       ChainAppend(composite_region, Member(parsed.region_type, parsed.coordlist))
  /\ pc' = "loop"
  /\ nsub' = nsub + 1
  /\ composite_at' = Append(composite_at, nsub + 1)
  /\ UNCHANGED <<coordsys, error, regions, regions_at, regions_when_opened>>

\* not composite, with a chain open
SealChain ==
  /\ SubLine("region")
  /\ ~parsed.composite /\ composite_region # None
  /\ regions' =
       RegionsAppend(regions,
         Composite(ChainAppend(composite_region,
                               Member(parsed.region_type, parsed.coordlist))))
  /\ composite_region' = None
  /\ pc' = "loop"
  /\ nsub' = nsub + 1
  /\ regions_at' = Append(regions_at, Append(composite_at, nsub + 1))
  /\ composite_at' = <<>>
  /\ regions_when_opened' = <<>>
  /\ UNCHANGED <<coordsys, error>>

\* not composite, no chain open
EmitRegion ==
  /\ SubLine("region")
  /\ ~parsed.composite /\ composite_region = None
  /\ regions' =
       RegionsAppend(regions, Single(Member(parsed.region_type, parsed.coordlist)))
  /\ pc' = "loop"
  /\ nsub' = nsub + 1
  /\ regions_at' = Append(regions_at, <<nsub + 1>>)
  /\ UNCHANGED <<coordsys, error, composite_region, composite_at,
                 regions_when_opened>>

\* the file is exhausted: return regions
Return ==
  /\ pc = "loop"
  /\ pending = <<>>
  /\ lineno = Len(file)
  /\ pc' = "done"
  /\ returned' = ReturnValue(regions, composite_region)
  /\ UNCHANGED <<file, call, first_result, lineno, pending, coordsys, regions,
                 composite_region, cycle_pos, error, parsed, nsub, regions_at,
                 composite_at, regions_when_opened>>

\* ds9_parser is called again on the same file in the same process: its
\* locals are fresh, the module-level cycle iterator is where it was left
CallAgain ==
  /\ pc \in {"done", "raised"}
  /\ call = "first"
  /\ call' = "second"
  /\ first_result' = Outcome
  /\ pc' = "loop"
  /\ lineno' = 0
  /\ pending' = <<>>
  /\ coordsys' = None
  /\ regions' = <<>>
  /\ composite_region' = None
  /\ returned' = NoResult
  /\ error' = ""
  /\ parsed' = NoCall
  /\ nsub' = 0
  /\ regions_at' = <<>>
  /\ composite_at' = <<>>
  /\ regions_when_opened' = <<>>
  /\ UNCHANGED <<file, cycle_pos>>

Next ==
  \/ ReadLine
  \/ CallLineParser
  \/ Declare
  \/ Ignore
  \/ Raise
  \/ OpenChain
  \/ ExtendChain
  \/ SealChain
  \/ EmitRegion
  \/ Return
  \/ CallAgain

Spec == Init /\ [][Next]_vars

\* the same program on the files that declare each recognized system
SpecUnits == InitUnits /\ [][Next]_vars

\* the same program on the files that exercise the field text
SpecFields == InitFields /\ [][Next]_vars

(* ----------------------- the input seen as sub-lines ------------------- *)

RECURSIVE SubLinesUpTo(_, _)
SubLinesUpTo(f, n) ==
  IF n = 0 THEN <<>> ELSE SubLinesUpTo(f, n - 1) \o split_table[f[n]]

\* the sub-lines of the file, in the order ds9_parser processes them; the
\* first nsub of them have been processed to completion
SL == SubLinesUpTo(file, Len(file))

\* the first identifier of every sub-line
FirstIdentifier == [l \in SubLineSet |-> region_type_or_coordsys_re(l).group]

IsDecl(l) == FirstIdentifier[l] \in Range(coordinate_systems)

IsRegion(l) == FirstIdentifier[l] \in DOMAIN language_spec

Marked(l) == HasDouble(l, "|")

\* the coordinate system declared by the last declaration before sub-line k
SystemBefore(k) ==
  LET decls == {j \in 1..(k - 1) : IsDecl(SL[j])}
  IN  IF decls = {} THEN None
      ELSE FirstIdentifier[SL[CHOOSE j \in decls : \A i \in decls : i <= j]]

\* sub-line k is a region line that no declaration precedes
UnboundAt(k) == IsRegion(SL[k]) /\ \A j \in 1..(k - 1) : ~IsDecl(SL[j])

Finished == pc \in {"done", "raised"}

(* --------------------------------- C1 ---------------------------------- *)

\* C1: a region sub-line that no coordinate-system declaration precedes is
\* never passed: ds9_parser raises the ValueError of line_parser at the first
\* such sub-line, before any field is decoded, and returns no list.
C1_UnboundRegionAborts ==
  \A k \in 1..Len(SL) :
    UnboundAt(k) =>
      /\ nsub < k
      /\ pc # "done"
      /\ returned = NoResult
      /\ pc = "raised" =>
           /\ error = "ValueError"
           /\ parsed.parsed = <<>>
           /\ UnboundAt(nsub + 1)
           /\ regions = <<>>

\* a call that raised at a region line met before any declaration, after
\* at least one ignored sub-line
C1_Witness ==
  /\ pc = "raised"
  /\ error = "ValueError"
  /\ coordsys = None
  /\ nsub >= 1
  /\ UnboundAt(nsub + 1)

(* --------------------------------- C2 ---------------------------------- *)

DeclLines == {line_fk5, line_galactic, line_image}

\* the field list of circle(1,2,3) and of box(4,5,6,7,8) under fk5
Whole(n) == [m |-> n, e |-> 0]

Fk5Position(a, b) ==
  SkyCoord(<< <<Value("Angle", "deg", <<Whole(a)>>, "coordinate"),
               Value("Angle", "deg", <<Whole(b)>>, "coordinate")>> >>, fk5)

Fk5Circle123 ==
  Member(circle, <<Fk5Position(1, 2), Value("Quantity", "deg", <<Whole(3)>>, "radius")>>)

Fk5Box45678 ==
  Member(box, <<Fk5Position(4, 5),
                Value("Quantity", "deg", <<Whole(6)>>, "width"),
                Value("Quantity", "deg", <<Whole(7)>>, "height"),
                Value("Quantity", "deg", <<Whole(8)>>, "angle")>>)

InlineFile(d) == <<d, line_inline>>

TwoLineFile(d) == <<d, line_circle_cont, line_box>>

RegionTypes(members) == [i \in 1..Len(members) |-> members[i].region_type]

\* C2 (as claimed): the single line circle(1,2,3) || box(4,5,6,7,8) yields
\* one composite entry whose members are the circle and then the box.
C2_Original ==
  \A d \in DeclLines :
    (file = InlineFile(d) /\ pc = "done") =>
      /\ Len(returned.list) = 1
      /\ returned.list[1].composite
      /\ RegionTypes(returned.list[1].members) = <<circle, box>>

\* C2 (amended): the single line is one continuation-marked circle line: it
\* opens a chain that is still open when the input ends, and the returned
\* list is empty; the composite of the circle followed by the box is the one
\* entry returned when the box is on the next line.
C2_InlineMarkerOpensChain ==
  \A d \in DeclLines :
    /\ (file = InlineFile(d) /\ pc = "done") =>
         /\ returned = [ok |-> TRUE, list |-> <<>>]
         /\ RegionTypes(composite_region) = <<circle>>
         /\ Len(parsed.parsed) = 3
         /\ d = line_fk5 => composite_region = <<Fk5Circle123>>
    /\ (file = TwoLineFile(d) /\ pc = "done") =>
         /\ Len(returned.list) = 1
         /\ returned.list[1].composite
         /\ RegionTypes(returned.list[1].members) = <<circle, box>>
         /\ composite_region = None
         /\ d = line_fk5 =>
              returned.list = <<Composite(<<Fk5Circle123, Fk5Box45678>>)>>

C2_Witness ==
  /\ file = InlineFile(line_fk5)
  /\ pc = "done"
  /\ composite_region = <<Fk5Circle123>>

(* --------------------------------- C3 ---------------------------------- *)

ExampleFile == <<line_fk5, line_example>>

\* C3: fk5 then circle(10.0, 20.0, 5") yields exactly one circle whose
\* fields are the fk5 position (10 deg, 20 deg) and the length 5 arcsec, and
\* no error is raised.
C3_EndToEndExample ==
  (file = ExampleFile /\ Finished) =>
    /\ pc = "done"
    /\ returned.list =
         <<Single(Member(circle,
             <<Fk5Position(10, 20),
               Value("Quantity", "arcsec", <<Whole(5)>>, "radius")>>))>>

(* --------------------------------- C4 ---------------------------------- *)

\* member is what line_parser returns for sub-line k under the system of the
\* last declaration before k
DecodedUnderLatest(member, k) ==
  LET r == line_parser_table[SL[k], SystemBefore(k), 0]
  IN  r.tag = "region" /\ member = Member(r.region_type, r.coordlist)

\* C4: every region, in the output list or in the open chain, is decoded
\* under the system of the most recent declaration before its sub-line, and
\* the active system is always the most recently declared one.
C4_LatestDeclarationGoverns ==
  /\ \A i \in 1..Len(regions) :
       \A j \in 1..Len(regions[i].members) :
         DecodedUnderLatest(regions[i].members[j], regions_at[i][j])
  /\ \A j \in 1..Len(composite_region) :
       DecodedUnderLatest(composite_region[j], composite_at[j])
  /\ pc \in {"loop", "parsed"} => coordsys = SystemBefore(nsub + 1)

\* the same region text decoded in hours before a switch from fk5 to
\* galactic and in degrees after it
C4_Witness ==
  /\ Len(regions) = 2
  /\ SL[regions_at[1][1]] = SL[regions_at[2][1]]
  /\ SystemBefore(regions_at[1][1]) = fk5
  /\ SystemBefore(regions_at[2][1]) = galactic
  /\ regions[1].members[1].coordlist[1].pairs[1][1].unit = "hourangle"
  /\ regions[2].members[1].coordlist[1].pairs[1][1].unit = "deg"

(* --------------------------------- C5 ---------------------------------- *)

\* C5: every composite entry of the output list has at least two members;
\* the first comes from a continuation-marked region line and the last from
\* the unmarked region line that sealed the chain.
C5_SealedCompositeHasTwo ==
  \A i \in 1..Len(regions) :
    regions[i].composite =>
      LET members == regions[i].members
          at == regions_at[i]
      IN  /\ Len(members) >= 2
          /\ Len(at) = Len(members)
          /\ IsRegion(SL[at[1]]) /\ Marked(SL[at[1]])
          /\ IsRegion(SL[at[Len(at)]]) /\ ~Marked(SL[at[Len(at)]])
          /\ members[1].region_type = FirstIdentifier[SL[at[1]]]
          /\ members[Len(members)].region_type = FirstIdentifier[SL[at[Len(at)]]]

C5_Witness ==
  \E i \in 1..Len(regions) :
    regions[i].composite /\ Len(regions[i].members) = 2

(* --------------------------------- C6 ---------------------------------- *)

\* the region sub-lines among the first n sub-lines, and the unmarked ones
RegionOrdinals(n) == {k \in 1..n : IsRegion(SL[k])}

Closers(n) == {k \in RegionOrdinals(n) : ~Marked(SL[k])}

\* a chain is open when sub-line k is processed
ChainOpenBefore(k) ==
  LET prev == RegionOrdinals(k - 1)
  IN  prev # {} /\ Marked(SL[CHOOSE j \in prev : \A i \in prev : i <= j])

RECURSIVE Flatten(_)
Flatten(ss) == IF ss = <<>> THEN <<>> ELSE Head(ss) \o Flatten(Tail(ss))

Increasing(q) == \A i \in 1..(Len(q) - 1) : q[i] < q[i + 1]

C6_OneEntryPerClosingLine ==
  /\ Len(regions) = Cardinality(Closers(nsub))
  /\ Len(regions_at) = Len(regions)
  /\ Increasing(Flatten(regions_at))
  /\ \A i \in 1..Len(regions) :
       LET at == regions_at[i]
           k  == at[Len(at)]
       IN  /\ k \in Closers(nsub)
           /\ Cardinality({j \in Closers(nsub) : j <= k}) = i
           /\ regions[i].composite = ChainOpenBefore(k)
           /\ Len(regions[i].members) = Len(at)
           /\ \A j \in 1..Len(at) :
                /\ IsRegion(SL[at[j]])
                /\ regions[i].members[j].region_type = FirstIdentifier[SL[at[j]]]

C6_AppendOnly ==
  call' = call =>
    /\ Len(regions') >= Len(regions)
    /\ SubSeq(regions', 1, Len(regions)) = regions

\* C6: during a call the output list only grows at its end, holds one entry
\* per unmarked region line processed so far (a single region when no chain
\* was open, else the sealed composite), and its regions are in source order.
C6_SourceOrderAppendOnly == [](C6_OneEntryPerClosingLine) /\ [][C6_AppendOnly]_vars

\* a single region followed by a sealed composite
C6_Witness ==
  /\ Len(regions) = 2
  /\ ~regions[1].composite
  /\ regions[2].composite
  /\ regions[1].members[1].region_type # regions[2].members[1].region_type

(* --------------------------------- C7 ---------------------------------- *)

KindOf(by) ==
  CASE by = "coordinate" -> "Coordinate"
    [] by \in {"radius", "width", "height"} -> "Length"
    [] by = "angle" -> "Angle"
    [] OTHER -> "none"

DeclaredKinds ==
  [t \in {point, circle, box} |->
     CASE t = point  -> <<"Coordinate", "Coordinate">>
       [] t = circle -> <<"Coordinate", "Coordinate", "Length">>
       [] t = box    -> <<"Coordinate", "Coordinate", "Length", "Length", "Angle">>]

\* the tokens of the field text of every region sub-line
Tokens ==
  [l \in SubLineSet |-> IF IsRegion(l) THEN Split(coords_etc(l), splitter) ELSE <<>>]

\* the token decoded as a field of the given kind at position i (from 1)
DecodedAs(token, by, i, units) ==
  IF KindOf(by) = "Coordinate" THEN coordinate(token, units[((i - 1) % 2) + 1])
  ELSE angular_length_quantity(token, by)

\* the ordinal of the sub-line that parsed is the result of
ParsedOrdinal == IF pc = "parsed" THEN nsub + 1 ELSE nsub

\* the latest sub-line was a region line of a fixed-arity type with exactly
\* as many tokens as the type has fields, and type_parser returned
ExactArityParsed ==
  /\ parsed.tag = "region"
  /\ parsed.region_type \in DOMAIN DeclaredKinds
  /\ Len(Tokens[SL[ParsedOrdinal]]) = Len(DeclaredKinds[parsed.region_type])

\* C7: for a fixed-arity type and exactly that many (decodable) tokens,
\* type_parser returns one field per token, in order, field i being token i
\* decoded by the kind the table declares for position i.
C7_FixedArityKinds ==
  ExactArityParsed =>
    /\ Len(parsed.parsed) = Len(DeclaredKinds[parsed.region_type])
    /\ \A i \in 1..Len(parsed.parsed) :
         /\ KindOf(parsed.parsed[i].by) = DeclaredKinds[parsed.region_type][i]
         /\ parsed.parsed[i] =
              DecodedAs(Tokens[SL[ParsedOrdinal]][i], parsed.parsed[i].by, i, parsed.units)

C7_Witness ==
  /\ ExactArityParsed
  /\ parsed.region_type = box
  /\ Len(parsed.parsed) = 5

(* --------------------------------- C8 ---------------------------------- *)

ClaimedUnits(name) ==
  IF name \in {fk5, fk4, icrs} THEN <<hour_or_deg, "deg">>
  ELSE IF name \in {galactic, ecliptic} THEN <<"deg", "deg">>
  ELSE <<"dimensionless", "dimensionless">>

\* C8: whenever a region is decoded under a recognized system, the unit
\* lookup succeeds and gives the pair of that system: (hour-or-degree,
\* degree) for fk5/fk4/icrs, (degree, degree) for galactic/ecliptic,
\* dimensionless for physical/image/wcs*.
C8_UnitLookupNeverFails ==
  /\ coordsys # None => coordsys \in Range(coordinate_systems)
  /\ (parsed.tag \in {"region", "raise"} /\ coordsys # None) =>
       /\ parsed.units = ClaimedUnits(coordsys)
       /\ parsed.err # "KeyError"

\* a region decoded under ecliptic, whose units are filed under the name of
\* the frame
C8_Witness ==
  /\ coordsys = ecliptic
  /\ parsed.tag = "region"
  /\ parsed.units = <<"deg", "deg">>
  /\ regions # <<>>

(* --------------------------------- C9 ---------------------------------- *)

\* C9: the second call of ds9_parser on the same file ends as the first did:
\* the same returned list, or the same exception.
C9_SecondParseEqualsFirst ==
  (call = "second" /\ Finished) => Outcome = first_result

\* a second call that returned a polygon decoded with the shared iterator
C9_Witness ==
  /\ call = "second"
  /\ pc = "done"
  /\ \E i \in 1..Len(returned.list) :
       /\ returned.list[i].members[1].region_type = polygon
       /\ Len(returned.list[i].members[1].coordlist) = 3

(* --------------------------------- C10 --------------------------------- *)

\* C10: when the input ends with a chain open, ds9_parser returns normally;
\* the returned list is the list as it was when the chain was opened and no
\* region of the open chain is in it.
C10_OpenChainDropped ==
  (pc = "done" /\ composite_region # None) =>
    /\ returned.ok
    /\ error = ""
    /\ returned.list = regions_when_opened
    /\ Len(returned.list) = Len(regions_at)
    /\ \A j \in 1..Len(composite_at) :
         \A i \in 1..Len(regions_at) :
           \A n \in 1..Len(regions_at[i]) : regions_at[i][n] # composite_at[j]

C10_Witness ==
  /\ pc = "done"
  /\ composite_region # None
  /\ Len(composite_region) = 2
  /\ Len(returned.list) = 1

(* --------------------------------- C11 --------------------------------- *)

\* the field text as the claim describes it: from the end of the region's
\* name to the first "#", or to the end of the sub-line (its newline apart)
\* when it has none, with surrounding spaces and "|" and the parentheses
\* removed
ClaimedPayload(line) ==
  LET stop == region_type_or_coordsys_re(line).stop
      hash == Find(line, "#")
      text_end == IF hash # -1 THEN hash
                  ELSE IF line[Len(line)] = "\n" THEN Len(line) - 1
                  ELSE Len(line)
  IN  strip_paren(Strip(Slice(line, stop, text_end), {" ", "|"}))

\* the sub-line line_parser was just called on is a region line met under a
\* declared system
RegionJustParsed ==
  /\ pc = "parsed"
  /\ parsed.tag \in {"region", "raise"}
  /\ coordsys # None

\* C11: the payload decoded for a region sub-line is the text from the end
\* of the region's name to the first "#" or to the end of the sub-line,
\* stripped; without a "#" no character of the last token is lost, whether
\* the sub-line ends in a newline, is followed by ";" or ends the file.
C11_PayloadKeepsLastToken ==
  RegionJustParsed =>
    /\ coords_etc(SL[nsub + 1]) = ClaimedPayload(SL[nsub + 1])
    /\ parsed.parsed =
         call_type_parser_on(ClaimedPayload(SL[nsub + 1]), parsed.region_type,
                             coordsys, cycle_pos).coord_list

(* --------------------------------- C12 --------------------------------- *)

RECURSIVE SubLinesOf(_)
\* the sub-lines of the raw lines f, in the order the two loops visit them
SubLinesOf(f) ==
  IF f = <<>> THEN <<>> ELSE Split(Head(f), {";"}) \o SubLinesOf(Tail(f))

RECURSIVE ds9_parser_from(_, _, _, _, _, _)

\* the body of the inner loop of ds9_parser on sub-line i, given what
\* line_parser gave for it, and the rest of the call
ds9_parser_body(sublines, i, cs, regs, chain, result) ==
  IF result.tag = "raise"
  THEN [pc |-> "raised", returned |-> NoResult, error |-> result.err]
  ELSE IF result.tag \in {"coordsys", "None"}
  THEN ds9_parser_from(sublines, i + 1, CoordsysAfter(result, cs), regs, chain,
                       result.pos)
  ELSE IF result.composite /\ chain = None
  THEN ds9_parser_from(sublines, i + 1, cs, regs,
                       <<Member(result.region_type, result.coordlist)>>, result.pos)
  ELSE IF result.composite
  THEN ds9_parser_from(sublines, i + 1, cs, regs,
         ChainAppend(chain, Member(result.region_type, result.coordlist)),
         result.pos)
  ELSE IF chain # None
  THEN ds9_parser_from(sublines, i + 1, cs,
         RegionsAppend(regs,
           Composite(ChainAppend(chain,
                                 Member(result.region_type, result.coordlist)))),
         None, result.pos)
  ELSE ds9_parser_from(sublines, i + 1, cs,
         RegionsAppend(regs, Single(Member(result.region_type, result.coordlist))),
         chain, result.pos)

\* ds9_parser from sub-line i on, as a function of its locals
ds9_parser_from(sublines, i, cs, regs, chain, pos) ==
  IF i > Len(sublines)
  THEN [pc |-> "done", returned |-> ReturnValue(regs, chain), error |-> ""]
  ELSE ds9_parser_body(sublines, i, cs, regs, chain,
                       line_parser(sublines[i], cs, pos))

\* how a call of ds9_parser on the raw lines f ends
ds9_parser(f) == ds9_parser_from(SubLinesOf(f), 1, None, <<>>, None, 0)

\* f with the ";" at position p of raw line i replaced by a newline
SemicolonToNewline(f, i, p) ==
  SubSeq(f, 1, i - 1)
    \o <<SubSeq(f[i], 1, p - 1) \o <<"\n">>, SubSeq(f[i], p + 1, Len(f[i]))>>
    \o SubSeq(f, i + 1, Len(f))

\* f with the newline that ends raw line i replaced by a ";"
NewlineToSemicolon(f, i) ==
  SubSeq(f, 1, i - 1)
    \o <<SubSeq(f[i], 1, Len(f[i]) - 1) \o <<";">> \o f[i + 1]>>
    \o SubSeq(f, i + 2, Len(f))

\* the files that differ from f in one statement separator
SeparatorVariants(f) ==
  UNION {{SemicolonToNewline(f, i, p) : p \in {q \in 1..Len(f[i]) : f[i][q] = ";"}} :
           i \in 1..Len(f)}
    \cup {NewlineToSemicolon(f, i) : i \in 1..(Len(f) - 1)}

\* the call on the file ended as the function of its sub-lines says
CallEndsAsComputed == Finished => Outcome = ds9_parser(file)

\* C12: replacing one ";" between two statements by a newline, or one
\* newline between two statements by a ";", leaves the returned list
\* unchanged.
C12_SeparatorsInterchangeable ==
  (pc = "done" /\ call = "first") =>
    \A v \in SeparatorVariants(file) :
      ds9_parser(v) = [pc |-> "done", returned |-> returned, error |-> ""]

(* --------------------------------- C13 --------------------------------- *)

\* the four suffixes and their units, as the claim lists them
ClaimedSuffixUnit ==
  [c \in {"\"", "'", "r", "i"} |->
     CASE c = "\"" -> "arcsec" [] c = "'" -> "arcmin" [] c = "r" -> "rad"
       [] c = "i" -> "dimensionless"]

\* a Length or Angle literal decoded as the claim says: the prefix in the
\* unit of a suffix, otherwise the whole literal in degrees, and an error
\* exactly when the text to convert is not a number
ClaimedLength(token, by) ==
  LET n == Len(token)
      suffixed == n > 0 /\ token[n] \in DOMAIN ClaimedSuffixUnit
      f == float(IF suffixed THEN SubSeq(token, 1, n - 1) ELSE token)
  IN  IF ~f.ok THEN Raised("ValueError", by)
      ELSE Value("Quantity", IF suffixed THEN ClaimedSuffixUnit[token[n]] ELSE "deg",
                 <<f.num>>, by)

\* the positions (from 1) of the tokens of sub-line l that type_parser pairs
\* with a Length or Angle parser
LengthPositions(l) ==
  LET kinds == language_spec[FirstIdentifier[l]].kinds
  IN  {i \in 1..Len(kinds) : i <= Len(Tokens[l]) /\ kinds[i] # "coordinate"}

\* C13: a Length or Angle literal that ends in one of the suffixes ", ', r, i
\* is its prefix in that unit, any other literal is the whole literal in
\* degrees, and decoding fails only when the text to convert is not a number
\* (so 5. is 5 degrees).
C13_SuffixOrDegrees ==
  RegionJustParsed =>
    LET l == SL[nsub + 1]
        kinds == language_spec[parsed.region_type].kinds
    IN  \A i \in LengthPositions(l) :
          LET v == angular_length_quantity(Tokens[l][i], kinds[i])
              claimed == ClaimedLength(Tokens[l][i], kinds[i])
          IN  /\ IsError(v) = IsError(claimed)
              /\ ~IsError(v) => v = claimed
              /\ i <= Len(parsed.parsed) => parsed.parsed[i] = claimed

(* --------------------------------- C14 --------------------------------- *)

\* the region sub-lines from ordinal a to ordinal b
RegionRun(a, b) == {k \in a..b : IsRegion(SL[k])}

\* the ordinals at are, in order, all the region sub-lines from the first of
\* them to the last
Consecutive(at) ==
  /\ Increasing(at)
  /\ Range(at) = RegionRun(at[1], at[Len(at)])

\* the open chain holds exactly the marked region lines met since the chain
\* was opened, and every sealed composite the marked region lines of its
\* chain followed by the first unmarked one
C14_ChainsFollowMarkers ==
  /\ Len(composite_at) = Len(composite_region)
  /\ (composite_region # None) = ChainOpenBefore(nsub + 1)
  /\ composite_region # None =>
       /\ Consecutive(composite_at)
       /\ \A j \in 1..Len(composite_at) : Marked(SL[composite_at[j]])
       /\ RegionRun(composite_at[Len(composite_at)] + 1, nsub) = {}
       /\ ~ChainOpenBefore(composite_at[1])
  /\ \A i \in 1..Len(regions) :
       LET at == regions_at[i]
       IN  /\ Consecutive(at)
           /\ \A j \in 1..(Len(at) - 1) : Marked(SL[at[j]])
           /\ ~Marked(SL[at[Len(at)]])
           /\ ~ChainOpenBefore(at[1])
           /\ regions[i].composite = (Len(at) > 1)

\* what one step of a call does to the open chain and to the output list
C14_ChainStep ==
  call' = call =>
    IF pc = "parsed" /\ parsed.tag = "region" /\ composite_region # None
    THEN LET member == Member(parsed.region_type, parsed.coordlist)
         IN  IF parsed.composite
             THEN /\ composite_region' = Append(composite_region, member)
                  /\ regions' = regions
             ELSE /\ regions' =
                       Append(regions, Composite(Append(composite_region, member)))
                  /\ composite_region' = None
    ELSE IF pc = "parsed" /\ parsed.tag = "region"
    THEN parsed.composite \/
           /\ regions' =
                Append(regions,
                       Single(Member(parsed.region_type, parsed.coordlist)))
           /\ composite_region' = None
    ELSE composite_region' = composite_region /\ regions' = regions

\* C14: an open chain stays open across sub-line and raw-line boundaries;
\* every later marked region line is appended to it; the first later
\* unmarked region line is appended, the chain becomes exactly one output
\* entry and no chain is open, so that the next unmarked region line is
\* emitted as a single region.
C14_ChainAcrossLines == [](C14_ChainsFollowMarkers) /\ [][C14_ChainStep]_vars

\* a chain opened on one raw line and sealed by the first sub-line of the
\* next, whose second sub-line is then emitted as a single region
C14_Witness ==
  /\ Len(file) = 3
  /\ file[2] = line_circle_cont
  /\ file[3] = line_paren_semi
  /\ Len(regions) = 2
  /\ regions[1].composite
  /\ regions_at[1] = <<2, 3>>
  /\ ~regions[2].composite
  /\ regions_at[2] = <<4>>
  /\ composite_region = None

(* --------------------------------- C15 --------------------------------- *)

\* line_parser classifies the sub-line it was called on by its first
\* identifier and raises for no sub-line that is not a region line
C15_Classified ==
  pc = "parsed" =>
    LET l == SL[nsub + 1]
    IN  /\ (parsed.tag = "coordsys") = IsDecl(l)
        /\ (parsed.tag = "None") = (~IsDecl(l) /\ ~IsRegion(l))
        /\ parsed.tag = "coordsys" => parsed.region_type = FirstIdentifier[l]

\* the two steps taken on a sub-line that is not a region line: the call of
\* line_parser and the branch on what it gave
C15_Frame ==
  /\ (pc = "loop" /\ pc' = "parsed" /\ parsed'.tag \in {"coordsys", "None"}) =>
       /\ regions' = regions
       /\ composite_region' = composite_region
       /\ coordsys' = coordsys
       /\ cycle_pos' = cycle_pos
  /\ (pc = "parsed" /\ parsed.tag \in {"coordsys", "None"}) =>
       /\ pc' = "loop"
       /\ error' = error
       /\ regions' = regions
       /\ composite_region' = composite_region
       /\ cycle_pos' = cycle_pos
       /\ coordsys' = IF parsed.tag = "coordsys" THEN parsed.region_type
                      ELSE coordsys

\* C15: a sub-line that is not a region line changes neither the output
\* list nor the open chain; a declaration changes only the active system,
\* also while a chain is open; a blank line, a bare comment or a line whose
\* first identifier is neither a system nor a region type changes nothing.
C15_NonRegionLinesFrame == [](C15_Classified) /\ [][C15_Frame]_vars

\* a declaration was met while a chain was open and the chain is still
\* open under the new system
C15_Witness ==
  /\ pc = "loop"
  /\ nsub = 3
  /\ IsDecl(SL[3])
  /\ coordsys = galactic
  /\ SystemBefore(3) # galactic
  /\ composite_region # None
  /\ composite_at = <<2>>

(* --------------------------------- C16 --------------------------------- *)

\* the number of fields the claim says type_parser decodes for sub-line l
ClaimedCount(l) ==
  LET specification == language_spec[FirstIdentifier[l]]
  IN  IF specification.cyclic \/ Len(Tokens[l]) < Len(specification.kinds)
      THEN Len(Tokens[l]) ELSE Len(specification.kinds)

\* kind i (from 1) of the field kinds of sub-line l, repeated for polygon
ClaimedKind(l, i) ==
  LET kinds == language_spec[FirstIdentifier[l]].kinds
  IN  kinds[((i - 1) % Len(kinds)) + 1]

\* C16: type_parser decodes exactly min(number of tokens, number of field
\* kinds) fields (for polygon the number of tokens), field i being token i
\* decoded by kind i; it raises only the error of a token that its kind
\* cannot decode, never one for the two counts being different.
C16_ShorterLengthWins ==
  RegionJustParsed =>
    LET l == SL[nsub + 1]
        d == Len(parsed.parsed)
    IN  /\ d <= ClaimedCount(l)
        /\ \A i \in 1..d :
             parsed.parsed[i] =
               DecodedAs(Tokens[l][i], ClaimedKind(l, i), i, parsed.units)
        /\ d < ClaimedCount(l) =>
             LET v == DecodedAs(Tokens[l][d + 1], ClaimedKind(l, d + 1), d + 1,
                                parsed.units)
             IN  IsError(v) /\ parsed.tag = "raise" /\ parsed.err = v.unit
        \* type_parser returned: an error can only be that of the SkyCoord
        \* line_parser makes of no pair at all
        /\ d = ClaimedCount(l) =>
             \/ parsed.tag = "region"
             \/ /\ parsed.err = "IndexError"
                /\ AnglePairs(parsed.parsed) = <<>>
                /\ coordsys \in DOMAIN coordsys_name_mapping

\* a point given three tokens was decoded to two fields, and a box given
\* three tokens to three
C16_Witness ==
  /\ Len(file) = 3
  /\ file[2] = line_surplus
  /\ file[3] = line_truncated
  /\ pc = "parsed"
  /\ nsub = 2
  /\ Len(regions) = 1
  /\ Len(Tokens[SL[2]]) = 3
  /\ parsed.tag = "region"
  /\ Len(Tokens[SL[3]]) = 3
  /\ Len(parsed.parsed) = 3
  /\ parsed.region_type = box

(* --------------------------------- C17 --------------------------------- *)

\* the positions (from 1) of the fields of parsed decoded as coordinates
CoordinatePositions == {i \in 1..Len(parsed.parsed) : parsed.parsed[i].by = "coordinate"}

\* the unit hint the claim gives position i (from 1) under the active system
ClaimedHint(i) == ClaimedUnits(coordsys)[((i - 1) % 2) + 1]

\* the unit the claim says a coordinate literal is decoded in under a hint
ClaimedUnitUnder(token, hint) ==
  IF hint # hour_or_deg THEN hint
  ELSE IF Find(token, ":") # -1 THEN "hourangle" ELSE "deg"

\* the literal carries a unit mark of its own
CarriesUnit(token) == token[Len(token)] \in {"\"", "'"}

\* C17 (as claimed): a coordinate at token position i is decoded under entry
\* i mod 2 of the unit pair of the active system; under fk5, fk4 and icrs in
\* hours at an even position when the literal contains ":" and in degrees
\* otherwise, and in degrees at an odd position.
C17_Original ==
  RegionJustParsed =>
    \A i \in CoordinatePositions :
      parsed.parsed[i].unit =
        ClaimedUnitUnder(Tokens[SL[nsub + 1]][i], ClaimedHint(i))

\* C17 (amended): the hint given to the coordinate at token position i is
\* entry i mod 2 of the unit pair of the active system; a literal that
\* carries a unit mark of its own is decoded in that unit whatever the
\* hint, and any other literal as the claim says.
C17_HintUnlessOwnUnit ==
  RegionJustParsed =>
    \A i \in CoordinatePositions :
      LET token == Tokens[SL[nsub + 1]][i]
      IN  /\ parsed.parsed[i] = coordinate(token, ClaimedHint(i))
          /\ parsed.parsed[i].unit =
               IF CarriesUnit(token)
               THEN IF token[Len(token)] = "\"" THEN "arcsec" ELSE "arcmin"
               ELSE ClaimedUnitUnder(token, ClaimedHint(i))

\* under fk5, after a point whose first literal carries its unit, the
\* vertices of a polygon: hours at position 0, degrees at position 1 for a
\* literal with ":" and degrees at position 2
C17_Witness ==
  /\ Len(file) = 3
  /\ file[2] = line_own_unit
  /\ file[3] = line_vertices
  /\ coordsys = fk5
  /\ pc = "parsed"
  /\ nsub = 2
  /\ regions[1].members[1].coordlist[1].pairs[1][1].unit = "arcsec"
  /\ Len(parsed.parsed) = 5
  /\ parsed.parsed[1].unit = "hourangle"
  /\ parsed.parsed[2].unit = "deg"
  /\ parsed.parsed[3].unit = "deg"

(* --------------------------------- C18 --------------------------------- *)

\* the systems the claim calls frame-bound
ClaimedFrameBound == {fk5, fk4, icrs, galactic, ecliptic}

\* the completed coordinate pairs of the decoded fields: pair j (from 1) is
\* made of fields 2j - 1 and 2j, both decoded as coordinates
CompletedPairs(fields) ==
  {j \in 1..(Len(fields) \div 2) :
     fields[2 * j - 1].by = "coordinate" /\ fields[2 * j].by = "coordinate"}

\* the positions of the fields that belong to no completed pair
Unpaired(fields) ==
  {i \in 1..Len(fields) : \A j \in CompletedPairs(fields) : i \notin {2 * j - 1, 2 * j}}

\* the elements of fields at the positions idx, in their order
Restricted(fields, idx) ==
  LET pick == SelectSeq([i \in 1..Len(fields) |-> i], LAMBDA i : i \in idx)
  IN  [n \in 1..Len(pick) |-> fields[pick[n]]]

\* the completed pairs of fields, in their order
PairsOf(fields) ==
  LET pick == SelectSeq([j \in 1..(Len(fields) \div 2) |-> j],
                        LAMBDA j : j \in CompletedPairs(fields))
  IN  [n \in 1..Len(pick) |-> <<fields[2 * pick[n] - 1], fields[2 * pick[n]]>>]

\* C18: under a frame-bound system the field list returned for a region is
\* the collapsed positions of all its completed coordinate pairs, followed
\* by exactly the decoded fields of no pair, in their order: n - 2k of them
\* for n decoded fields and k pairs; under any other system it is the list
\* of decoded fields unchanged.
C18_CollapsedThenRest ==
  (RegionJustParsed /\ parsed.tag = "region") =>
    IF coordsys \in ClaimedFrameBound
    THEN /\ parsed.coordlist[1].cls = "SkyCoord"
         /\ parsed.coordlist[1].pairs = PairsOf(parsed.parsed)
         /\ Tail(parsed.coordlist) =
              Restricted(parsed.parsed, Unpaired(parsed.parsed))
         /\ Len(parsed.coordlist) =
              1 + Len(parsed.parsed) - 2 * Cardinality(CompletedPairs(parsed.parsed))
    ELSE parsed.coordlist = parsed.parsed

\* a polygon of five vertex coordinates under ecliptic: two pairs collapsed,
\* followed by the fifth coordinate
C18_Witness ==
  /\ RegionJustParsed
  /\ coordsys = ecliptic
  /\ parsed.tag = "region"
  /\ parsed.region_type = polygon
  /\ Len(parsed.parsed) = 5
  /\ Len(parsed.coordlist[1].pairs) = 2
  /\ Tail(parsed.coordlist) = <<parsed.parsed[5]>>

(* --------------------------------- C19 --------------------------------- *)

\* C19: the pairs collapsed into the position of a region are the first k
\* pairs of its decoded fields, pair j (from 0) being the fields at 2j and
\* 2j + 1, both decoded as coordinates; every later pair is skipped, so that
\* no Length or Angle field is in a position and no kept pair follows a
\* skipped one.
C19_PairsAreCoordinatePrefix ==
  (RegionJustParsed /\ parsed.tag = "region"
     /\ coordsys \in DOMAIN coordsys_name_mapping) =>
    LET fields == parsed.parsed
        pairs == parsed.coordlist[1].pairs
    IN  /\ 2 * Len(pairs) <= Len(fields)
        /\ \A j \in 1..Len(pairs) :
             /\ pairs[j] = <<fields[2 * j - 1], fields[2 * j]>>
             /\ KindOf(fields[2 * j - 1].by) = "Coordinate"
             /\ KindOf(fields[2 * j].by) = "Coordinate"
        /\ \A j \in (Len(pairs) + 1)..(Len(fields) \div 2) :
             /\ fields[2 * j - 1].cls # "Angle"
             /\ KindOf(fields[2 * j - 1].by) # "Coordinate"

\* a box of six tokens: the pair of its coordinates is collapsed and the
\* pair of its width and height, tested by its first member only, is skipped
C19_Witness ==
  /\ RegionJustParsed
  /\ parsed.tag = "region"
  /\ coordsys = galactic
  /\ parsed.region_type = box
  /\ Len(Tokens[SL[nsub + 1]]) = 6
  /\ Len(parsed.parsed) = 5
  /\ Len(parsed.coordlist[1].pairs) = 1
  /\ parsed.parsed[3].by = "width"
  /\ parsed.parsed[4].by = "height"

====
